---------------------------- MODULE Spec2Model ----------------------------
(***************************************************************************)
(* Model of the repositories tracker (cloradar-tracker/src/tracker.rs).    *)
(*                                                                         *)
(* run() reads the GitHub tokens, builds a pool with them, reads the       *)
(* repositories to track from the database and tracks them with bounded    *)
(* concurrency (buffer_unordered), each one under a timeout.  The results  *)
(* are folded into one result, the rate limit of each token is queried and *)
(* the folded result is returned.                                          *)
(*                                                                         *)
(* Every await of the source is one state of the model: the futures of the *)
(* stream are polled by one task, so the code between two awaits of a      *)
(* future runs atomically and futures interleave at their awaits only.     *)
(*                                                                         *)
(* Encodings.  Option<T>: None is <<>>, Some(x) is <<x>>.  A digest is the *)
(* hex SHA-256 of the bincode encoding of a tuple of fields: bincode is    *)
(* injective on these types and SHA-256 is taken as collision free, so a   *)
(* digest is modelled as the tagged tuple of exactly the fields hashed.    *)
(* bincode cannot fail on strings, vectors and integers, so the            *)
(* serialization error paths (lines 59, 65, 87-89) are never taken.        *)
(* A repository's url stands for the repository: url = repository_id.      *)
(***************************************************************************)
EXTENDS Integers, Sequences, FiniteSets, TLC

\* ------------------------------------------------------------------ bounds
MaxRepos == 2
MaxTokens == 2
MaxConcurrency == 2
MaxIssueId == 2
MaxRuns == 2

\* Maximum time that can take tracking a single repository (seconds).
REPOSITORY_TRACK_TIMEOUT == 300

Repos == 1..MaxRepos
IssueIds == 1..MaxIssueId

None == <<>>
Some(x) == <<x>>
CfgMissing == -1

\* Stars, topics and languages a repository may have in GitHub.
StarsValues == {10, 11}
TopicsValues == {Some(<<"cncf">>)}
LanguagesValues == {Some(<<"rust">>)}

\* Title, number and labels an issue may have in GitHub.
IssueContents ==
    { [title |-> "a", number |-> 1, labels |-> <<"bug">>],
      [title |-> "b", number |-> 1, labels |-> <<"bug">>],
      [title |-> "a", number |-> 2, labels |-> <<"bug">>] }

\* ----------------------------------------------------------------- digests
\* Repository::update_digest: sha256(bincode(topics, languages, stars)).
RepoDigest(topics, languages, stars) == <<"sha256", topics, languages, stars>>

\* A digest that covers the issue's number too.
update_digest_with_number(issue) ==
    [issue EXCEPT !.digest = Some(<<"sha256", issue.title, issue.number, issue.labels>>)]

\* Issue::update_digest: sha256(bincode(title, labels)).
update_digest(issue) ==
    [issue EXCEPT !.digest = Some(<<"sha256", issue.title, issue.labels>>)]

\* An issue as built from GitHub's data, before its digest is computed.
NewIssue(c) == [title |-> c.title, number |-> c.number, labels |-> c.labels, digest |-> None]

\* RepoViewRepository::issues: the open issues of the repository fetched,
\* each one with its digest computed.
issues(gh_repo) ==
    [i \in IssueIds |->
        IF gh_repo.issues[i] = None THEN None
        ELSE Some(update_digest(NewIssue(gh_repo.issues[i][1])))]

\* An update that computes the digest before it copies the stars.
update_gh_data_stale_digest(repo, gh_repo) ==
    [repo EXCEPT !.topics = gh_repo.topics,
                 !.languages = gh_repo.languages,
                 !.stars = Some(gh_repo.stars),
                 !.digest = Some(RepoDigest(gh_repo.topics, gh_repo.languages,
                                            repo.stars))]

\* Repository::update_gh_data: copies topics, languages and stars from the
\* repository fetched and recomputes the digest.
update_gh_data(repo, gh_repo) ==
    [repo EXCEPT !.topics = gh_repo.topics,
                 !.languages = gh_repo.languages,
                 !.stars = Some(gh_repo.stars),
                 !.digest = Some(RepoDigest(gh_repo.topics, gh_repo.languages,
                                            Some(gh_repo.stars)))]

\* Data that always counts as changed.
gh_data_changed_always(repo, gh_repo) == TRUE

\* The value update_gh_data returns: whether the digest changed.
gh_data_changed(repo, gh_repo) == update_gh_data(repo, gh_repo).digest # repo.digest

\* find_issue: the digest of the issue with this id in the collection, None
\* when there is none; expect() panics on an issue found without a digest.
\* A collection holds, for each issue id, None or Some(issue).
find_issue(issue_id, issues_list) ==
    IF issues_list[issue_id] = None THEN [panic |-> FALSE, digest |-> None]
    ELSE IF issues_list[issue_id][1].digest = None THEN [panic |-> TRUE, digest |-> None]
    ELSE [panic |-> FALSE, digest |-> issues_list[issue_id][1].digest]

\* Only the issues not found in the database are registered.
needs_register_new_only(digest, issue) == digest = None

\* The condition of line 198: the issue is registered.
needs_register(digest, issue) == digest = None \/ digest # issue.digest

\* No issue is unregistered.
needs_unregister_never(digest) == FALSE

\* The condition of line 206: the issue is unregistered.
needs_unregister(digest) == digest = None

\* The loop of lines 196-202 from issue `from` on, up to its next await:
\* the next issue to register, a panic in find_issue, or the end of the loop.
RECURSIVE register_loop(_, _, _)
register_loop(from, issues_in_gh, issues_in_db) ==
    IF from > MaxIssueId THEN [kind |-> "done", id |-> 0]
    ELSE IF issues_in_gh[from] = None
         THEN register_loop(from + 1, issues_in_gh, issues_in_db)
    ELSE LET found == find_issue(from, issues_in_db) IN
         IF found.panic THEN [kind |-> "panic", id |-> from]
         ELSE IF needs_register(found.digest, issues_in_gh[from][1])
              THEN [kind |-> "register", id |-> from]
         ELSE register_loop(from + 1, issues_in_gh, issues_in_db)

\* The loop of lines 205-210 from issue `from` on, up to its next await.
RECURSIVE unregister_loop(_, _, _)
unregister_loop(from, issues_in_gh, issues_in_db) ==
    IF from > MaxIssueId THEN [kind |-> "done", id |-> 0]
    ELSE IF issues_in_db[from] = None
         THEN unregister_loop(from + 1, issues_in_gh, issues_in_db)
    ELSE LET found == find_issue(from, issues_in_gh) IN
         IF found.panic THEN [kind |-> "panic", id |-> from]
         ELSE IF needs_unregister(found.digest)
              THEN [kind |-> "unregister", id |-> from]
         ELSE unregister_loop(from + 1, issues_in_gh, issues_in_db)

\* A track_repository that writes the last track timestamp only after it
\* has written an issue.
after_register_only_if_written(from, issues_in_gh, issues_in_db) ==
    LET reg == register_loop(from, issues_in_gh, issues_in_db)
        unreg == unregister_loop(1, issues_in_gh, issues_in_db)
    IN  IF reg.kind # "done" THEN reg
        ELSE IF unreg.kind # "done" THEN unreg
        ELSE IF from = 1 THEN [kind |-> "ended", id |-> 0]
        ELSE [kind |-> "last_track", id |-> 0]

\* Where track_repository stops next once the register loop has reached
\* issue `from`: an await of lines 199, 207 or 213, or a panic.
after_register(from, issues_in_gh, issues_in_db) ==
    LET reg == register_loop(from, issues_in_gh, issues_in_db)
        unreg == unregister_loop(1, issues_in_gh, issues_in_db)
    IN  IF reg.kind # "done" THEN reg
        ELSE IF unreg.kind # "done" THEN unreg
        ELSE [kind |-> "last_track", id |-> 0]

\* A track_repository that goes back to the register loop after the
\* unregister loop.
after_unregister_restarts(from, issues_in_gh, issues_in_db) ==
    LET unreg == unregister_loop(from, issues_in_gh, issues_in_db)
        reg == register_loop(1, issues_in_gh, issues_in_db)
    IN  IF unreg.kind # "done" THEN unreg
        ELSE IF reg.kind # "done" THEN reg
        ELSE [kind |-> "last_track", id |-> 0]

\* The same once the unregister loop has reached issue `from`.
after_unregister(from, issues_in_gh, issues_in_db) ==
    LET unreg == unregister_loop(from, issues_in_gh, issues_in_db)
    IN  IF unreg.kind # "done" THEN unreg
        ELSE [kind |-> "last_track", id |-> 0]

\* ------------------------------------------------------------------ errors
Ok == [ok |-> TRUE, msg |-> <<>>]
Err(url, cause) == [ok |-> FALSE, msg |-> <<[url |-> url, cause |-> cause]>>]

\* The fold of lines 139-148: the first error as it is, every later one
\* appended to the message on a line of its own.
fold_step(final_result, task_result) ==
    IF task_result.ok THEN final_result
    ELSE IF final_result.ok THEN task_result
    ELSE [ok |-> FALSE, msg |-> final_result.msg \o task_result.msg]

RECURSIVE fold(_, _)
fold(final_result, task_results) ==
    IF task_results = <<>> THEN final_result
    ELSE fold(fold_step(final_result, Head(task_results)), Tail(task_results))

\* ------------------------------------------------------------------- state
VARIABLES
    gh_tokens,              \* creds.githubTokens: how many tokens, or CfgMissing
    concurrency,            \* tracker.concurrency, or CfgMissing
    gh,                     \* GitHub: each repository's data and open issues
    db_repositories,        \* database: each repository's row
    db_issues,              \* database: each repository's issues
    due,                    \* database: the repositories that are due
    run_no,                 \* which run of the tracker this is
    pc,                     \* run's position
    repositories_to_track,  \* the stream's repositories not yet taken
    units,                  \* the future of each repository of the stream
    gh_tokens_pool,         \* the tokens available in the pool
    task_results,           \* the results collected, in completion order
    result,                 \* the folded result
    token_i,                \* the token whose rate limit is checked next
    ret,                    \* what run returned
    ops,                    \* the calls each unit completed in this run
    tracked                 \* GitHub's data of each repository the previous
                            \* run tracked well, None for the others

vars == <<gh_tokens, concurrency, gh, db_repositories, db_issues, due, run_no, pc,
          repositories_to_track, units, gh_tokens_pool, task_results, result,
          token_i, ret, ops, tracked>>

config == <<gh_tokens, concurrency, gh, due, run_no, tracked>>
db == <<db_repositories, db_issues>>

\* A unit that the stream has not started.
IdleUnit ==
    [pc |-> "idle", gh_token |-> 0, repo |-> None, gh_repo |-> None,
     issues_in_db |-> None, id |-> 0, res |-> None]

\* The awaits of track_repository: lines 181, 187, 193, 199, 207 and 213.
TrackPcs == {"fetch", "update_gh_data", "get_issues", "register", "unregister",
             "last_track"}

\* The futures buffer_unordered holds.
InProgress == {r \in Repos : units[r].pc \in TrackPcs \cup {"get_token"}}

\* The units that hold a token.
Holding == {r \in Repos : units[r].gh_token # 0}

\* --------------------------------------------------------------- database
\* The database is used through DynDB; its operations are modelled by what
\* their names and uses say.  A call either completes, with the effect
\* below, or fails or is abandoned without any effect.  Issue ids are unique
\* across repositories: issue i of repository r stands for the id (r, i).

\* The Repository struct of a repository's row.
Repository(r) ==
    [repository_id |-> r, url |-> r,
     topics |-> db_repositories[r].topics,
     languages |-> db_repositories[r].languages,
     stars |-> db_repositories[r].stars,
     digest |-> db_repositories[r].digest]

\* db.get_repositories_to_track: the repositories that are due.
get_repositories_to_track == [k \in 1..Len(due) |-> Repository(due[k])]

\* db.update_repository_gh_data: the repository's topics, languages, stars
\* and digest are stored.
update_repository_gh_data(rows, repo) ==
    [rows EXCEPT ![repo.repository_id].topics = repo.topics,
                 ![repo.repository_id].languages = repo.languages,
                 ![repo.repository_id].stars = repo.stars,
                 ![repo.repository_id].digest = repo.digest]

\* db.update_repository_last_track_ts: the time of this run is stored.
update_repository_last_track_ts(rows, repository_id) ==
    [rows EXCEPT ![repository_id].last_track_ts = run_no]

\* db.get_repository_issues: the repository's issues.
get_repository_issues(rows, repository_id) == rows[repository_id]

\* db.register_issue: the issue is inserted, or updated if there is one
\* with its id.
register_issue(rows, repository_id, issue_id, issue) ==
    [rows EXCEPT ![repository_id][issue_id] = Some(issue)]

\* db.unregister_issue: the issue with this id is deleted.
unregister_issue(rows, repository_id, issue_id) ==
    [rows EXCEPT ![repository_id][issue_id] = None]

\* ------------------------------------------------------------ initial state
BaseIssue == [title |-> "a", number |-> 1, labels |-> <<"bug">>]

\* A repository's row before it was ever tracked, and the row a tracking
\* that found these stars left.
NeverTracked ==
    [topics |-> None, languages |-> None, stars |-> None, digest |-> None,
     last_track_ts |-> 0]

Tracked(t, l, s) ==
    [topics |-> t, languages |-> l, stars |-> Some(s),
     digest |-> Some(RepoDigest(t, l, Some(s))), last_track_ts |-> 0]

RepoRows ==
    {NeverTracked}
    \cup { Tracked(t, l, s) : t \in TopicsValues, l \in LanguagesValues, s \in StarsValues }

\* An issue's row: as a tracking registered it, or one without digest.
IssueRows ==
    { update_digest(NewIssue(c)) : c \in IssueContents } \cup { NewIssue(BaseIssue) }

GhRepo(s, i) ==
    [topics |-> Some(<<"cncf">>), languages |-> Some(<<"rust">>), stars |-> s, issues |-> i]

GhRepos ==
    { [topics |-> t, languages |-> l, stars |-> s, issues |-> i] :
        t \in TopicsValues, l \in LanguagesValues, s \in StarsValues,
        i \in [IssueIds -> {None} \cup {Some(c) : c \in IssueContents}] }

DbIssues == [IssueIds -> {None} \cup {Some(row) : row \in IssueRows}]

NoIssues == [i \in IssueIds |-> None]
OneIssue(x) == [i \in IssueIds |-> IF i = 1 THEN Some(x) ELSE None]

\* A repository with nothing to do but writing the last track timestamp.
Unchanged ==
    [gh |-> GhRepo(10, NoIssues),
     row |-> Tracked(Some(<<"cncf">>), Some(<<"rust">>), 10),
     issues |-> NoIssues]

\* The repositories of the runs with several repositories: one tracked for
\* the first time, which has an open issue, and one whose issue has no
\* digest in the database.
Cases ==
    { [gh |-> GhRepo(10, OneIssue(BaseIssue)), row |-> NeverTracked, issues |-> NoIssues],
      [Unchanged EXCEPT !.gh = GhRepo(10, OneIssue(BaseIssue)),
                        !.issues = OneIssue(NewIssue(BaseIssue))] }

\* The first n repositories are due.
DueLists == { [k \in 1..n |-> k] : n \in 0..MaxRepos }

IsDue(r) == \E k \in 1..Len(due) : due[k] = r

\* Runs over several repositories, with any number of tokens and any
\* concurrency.
InitScheduling ==
    /\ gh_tokens \in {CfgMissing} \cup (0..MaxTokens)
    /\ concurrency \in {CfgMissing} \cup (1..MaxConcurrency)
    /\ due \in DueLists
    /\ \E c \in [Repos -> Cases \cup {Unchanged}] :
        /\ \A r \in Repos : IsDue(r) <=> c[r] \in Cases
        /\ gh = [r \in Repos |-> c[r].gh]
        /\ db_repositories = [r \in Repos |-> c[r].row]
        /\ db_issues = [r \in Repos |-> c[r].issues]

\* Runs over one repository: with any issues in GitHub and in the database,
\* or with any stars in GitHub and any row in the database.
InitReconciling ==
    /\ gh_tokens = 1
    /\ concurrency = 1
    /\ due = <<1>>
    /\ \E g \in GhRepos, row \in RepoRows, i \in DbIssues :
        /\ \/ g.stars = Unchanged.gh.stars /\ row = Unchanged.row
           \/ g.issues = NoIssues /\ i = NoIssues
        /\ gh = [r \in Repos |-> IF r = 1 THEN g ELSE Unchanged.gh]
        /\ db_repositories = [r \in Repos |-> IF r = 1 THEN row ELSE Unchanged.row]
        /\ db_issues = [r \in Repos |-> IF r = 1 THEN i ELSE Unchanged.issues]

\* What a run starts from.
RunStart ==
    /\ pc = "start"
    /\ repositories_to_track = <<>>
    /\ units = [r \in Repos |-> IdleUnit]
    /\ gh_tokens_pool = {}
    /\ task_results = <<>>
    /\ result = Ok
    /\ token_i = 0
    /\ ret = None
    /\ ops = [r \in Repos |-> <<>>]

Init ==
    /\ run_no = 1
    /\ tracked = [r \in Repos |-> None]
    /\ RunStart
    /\ (InitScheduling \/ InitReconciling)

\* ------------------------------------------------------------------- run
\* A run that builds the pool without looking at the number of tokens.
SetupTokensPoolUnchecked ==
    /\ pc = "start"
    /\ IF gh_tokens = CfgMissing
       THEN /\ ret' = Some(Err(0, "config"))
            /\ pc' = "done"
            /\ UNCHANGED gh_tokens_pool
       ELSE /\ gh_tokens_pool' = 1..gh_tokens
            /\ pc' = "get_repositories_to_track"
            /\ UNCHANGED ret
    /\ UNCHANGED <<config, db, repositories_to_track, units, task_results, result,
                   token_i, ops>>

\* Lines 98-104: the tokens are read and the pool is built.
SetupTokensPool ==
    /\ pc = "start"
    /\ IF gh_tokens = CfgMissing
       THEN /\ ret' = Some(Err(0, "config"))
            /\ pc' = "done"
            /\ UNCHANGED gh_tokens_pool
       ELSE IF gh_tokens = 0
       THEN /\ ret' = Some(Err(0, "GitHub tokens not found in config file"))
            /\ pc' = "done"
            /\ UNCHANGED gh_tokens_pool
       ELSE /\ gh_tokens_pool' = 1..gh_tokens
            /\ pc' = "get_repositories_to_track"
            /\ UNCHANGED ret
    /\ UNCHANGED <<config, db, repositories_to_track, units, task_results, result,
                   token_i, ops>>

\* A run that builds the stream without looking at the number of
\* repositories.
GetRepositoriesToTrackUnchecked ==
    /\ pc = "get_repositories_to_track"
    /\ IF concurrency = CfgMissing
       THEN /\ ret' = Some(Err(0, "config"))
            /\ pc' = "done"
            /\ UNCHANGED repositories_to_track
       ELSE /\ repositories_to_track' = get_repositories_to_track
            /\ pc' = "tracking"
            /\ UNCHANGED ret
    /\ UNCHANGED <<config, db, units, gh_tokens_pool, task_results, result,
                   token_i, ops>>

\* Lines 108-113 and 135: the repositories to track are read; with none
\* the run ends, otherwise the stream is built with tracker.concurrency.
GetRepositoriesToTrack ==
    /\ pc = "get_repositories_to_track"
    /\ IF due = <<>>
       THEN /\ ret' = Some(Ok)
            /\ pc' = "done"
            /\ UNCHANGED repositories_to_track
       ELSE IF concurrency = CfgMissing
       THEN /\ ret' = Some(Err(0, "config"))
            /\ pc' = "done"
            /\ UNCHANGED repositories_to_track
       ELSE /\ repositories_to_track' = get_repositories_to_track
            /\ pc' = "tracking"
            /\ UNCHANGED ret
    /\ UNCHANGED <<config, db, units, gh_tokens_pool, task_results, result,
                   token_i, ops>>

\* Line 108: the database fails.
GetRepositoriesToTrackErr ==
    /\ pc = "get_repositories_to_track"
    /\ ret' = Some(Err(0, "db"))
    /\ pc' = "done"
    /\ UNCHANGED <<config, db, repositories_to_track, units, gh_tokens_pool,
                   task_results, result, token_i, ops>>

\* A stream that takes every repository at once.
CanDispatchUnbounded == TRUE

\* Line 135: buffer_unordered holds at most tracker.concurrency futures.
CanDispatch == Cardinality(InProgress) < concurrency

\* Lines 117-118 and 135: buffer_unordered takes the next repository of the
\* stream while it holds less than tracker.concurrency futures.
Dispatch ==
    /\ pc = "tracking"
    /\ repositories_to_track # <<>>
    /\ CanDispatch
    /\ LET repository == Head(repositories_to_track) IN
       units' = [units EXCEPT ![repository.repository_id] =
                    [IdleUnit EXCEPT !.pc = "get_token", !.repo = Some(repository)]]
    /\ repositories_to_track' = Tail(repositories_to_track)
    /\ UNCHANGED <<config, db, pc, gh_tokens_pool, task_results, result, token_i,
                   ret, ops>>

\* A pool that hands out a token and keeps it.
GetTokenShared(r) ==
    /\ pc = "tracking"
    /\ units[r].pc = "get_token"
    /\ \E gh_token \in gh_tokens_pool :
        /\ gh_tokens_pool' = gh_tokens_pool
        /\ units' = [units EXCEPT ![r].gh_token = gh_token, ![r].pc = "fetch"]
    /\ UNCHANGED <<config, db, pc, repositories_to_track, task_results, result,
                   token_i, ret, ops>>

\* A pool that hands its tokens to the first repository only.
GetTokenStarves(r) ==
    /\ r = 1
    /\ pc = "tracking"
    /\ units[r].pc = "get_token"
    /\ \E gh_token \in gh_tokens_pool :
        /\ gh_tokens_pool' = gh_tokens_pool \ {gh_token}
        /\ units' = [units EXCEPT ![r].gh_token = gh_token, ![r].pc = "fetch"]
    /\ UNCHANGED <<config, db, pc, repositories_to_track, task_results, result,
                   token_i, ret, ops>>

\* Line 121: the unit takes a token of the pool, once there is one.
GetToken(r) ==
    /\ pc = "tracking"
    /\ units[r].pc = "get_token"
    /\ \E gh_token \in gh_tokens_pool :
        /\ gh_tokens_pool' = gh_tokens_pool \ {gh_token}
        /\ units' = [units EXCEPT ![r].gh_token = gh_token, ![r].pc = "fetch"]
    /\ UNCHANGED <<config, db, pc, repositories_to_track, task_results, result,
                   token_i, ret, ops>>

\* A token that is not returned to the pool.
release_never(pool, gh_token) == pool

\* Lines 174 and 126: the token is moved into track_repository's future and
\* dropped with it, which returns it to the pool.
release(pool, gh_token) == pool \cup {gh_token}

\* A stream that puts the repository of a unit that ended with an error
\* back, to track it again.
EndUnitRetries(r, task_result) ==
    /\ units' = [units EXCEPT ![r] =
                    IF task_result.ok
                    THEN [IdleUnit EXCEPT !.pc = "ended", !.res = Some(task_result)]
                    ELSE IdleUnit]
    /\ gh_tokens_pool' = gh_tokens_pool \cup {units[r].gh_token}
    /\ task_results' = IF task_result.ok THEN Append(task_results, task_result)
                       ELSE task_results
    /\ repositories_to_track' = IF task_result.ok THEN repositories_to_track
                                ELSE Append(repositories_to_track, Repository(r))
    /\ UNCHANGED <<config, pc, result, token_i, ret>>

\* Lines 124-134: the unit's future ends with task_result: the token moved
\* into track_repository is dropped, which returns it to the pool, and
\* collect takes the result.
EndUnit(r, task_result) ==
    /\ units' = [units EXCEPT ![r] = [IdleUnit EXCEPT !.pc = "ended",
                                                      !.res = Some(task_result)]]
    /\ gh_tokens_pool' = release(gh_tokens_pool, units[r].gh_token)
    /\ task_results' = Append(task_results, task_result)
    /\ UNCHANGED <<config, pc, repositories_to_track, result, token_i, ret>>

\* A panic in unit r unwinds run: the futures of the stream are dropped, and
\* with them the tokens they hold.  The unit stays as it was at the panic.
PanicRun(r, unit) ==
    /\ pc' = "panicked"
    /\ units' = [q \in Repos |->
                    IF q = r THEN [unit EXCEPT !.gh_token = 0]
                    ELSE IF q \in InProgress THEN [IdleUnit EXCEPT !.pc = "dropped"]
                    ELSE units[q]]
    /\ gh_tokens_pool' = gh_tokens_pool \cup {units[q].gh_token : q \in Holding}
    /\ UNCHANGED <<config, repositories_to_track, task_results, result, token_i, ret>>

\* track_repository goes on to its next await, or panics.
Continue(r, unit, next) ==
    IF next.kind = "panic"
    THEN PanicRun(r, [unit EXCEPT !.pc = "panicked", !.id = next.id])
    ELSE /\ units' = [units EXCEPT ![r] = [unit EXCEPT !.pc = next.kind, !.id = next.id]]
         /\ UNCHANGED <<config, pc, repositories_to_track, gh_tokens_pool,
                        task_results, result, token_i, ret>>

Running(r) == pc = "tracking" /\ units[r].pc \in TrackPcs

\* Lines 181-186: the repository is fetched from GitHub and its data updated.
Fetch(r) ==
    /\ Running(r) /\ units[r].pc = "fetch"
    /\ LET repo == units[r].repo[1]
           gh_repo == gh[r]
           unit == [units[r] EXCEPT !.repo = Some(update_gh_data(repo, gh_repo)),
                                    !.gh_repo = Some(gh_repo)]
       IN  Continue(r, unit,
                    [kind |-> IF gh_data_changed(repo, gh_repo)
                              THEN "update_gh_data" ELSE "get_issues",
                     id |-> 0])
    /\ ops' = [ops EXCEPT ![r] = Append(@, <<"repository", 0>>)]
    /\ UNCHANGED db

\* Line 187: the repository's GitHub data is written to the database.
UpdateRepositoryGhData(r) ==
    /\ Running(r) /\ units[r].pc = "update_gh_data"
    /\ db_repositories' = update_repository_gh_data(db_repositories, units[r].repo[1])
    /\ Continue(r, units[r], [kind |-> "get_issues", id |-> 0])
    /\ ops' = [ops EXCEPT ![r] = Append(@, <<"update_repository_gh_data", 0>>)]
    /\ UNCHANGED db_issues

\* Lines 192-198: the repository's issues are read from the database and
\* the register loop starts.
GetRepositoryIssues(r) ==
    /\ Running(r) /\ units[r].pc = "get_issues"
    /\ LET issues_in_gh == issues(units[r].gh_repo[1])
           issues_in_db == get_repository_issues(db_issues, units[r].repo[1].repository_id)
       IN  Continue(r, [units[r] EXCEPT !.issues_in_db = Some(issues_in_db)],
                    after_register(1, issues_in_gh, issues_in_db))
    /\ ops' = [ops EXCEPT ![r] = Append(@, <<"get_repository_issues", 0>>)]
    /\ UNCHANGED db

\* Line 199: the issue is registered in the database; the loop goes on.
RegisterIssue(r) ==
    /\ Running(r) /\ units[r].pc = "register"
    /\ LET issues_in_gh == issues(units[r].gh_repo[1])
           issues_in_db == units[r].issues_in_db[1]
           id == units[r].id
       IN  /\ db_issues' = register_issue(db_issues, units[r].repo[1].repository_id, id,
                                          issues_in_gh[id][1])
           /\ Continue(r, units[r], after_register(id + 1, issues_in_gh, issues_in_db))
           /\ ops' = [ops EXCEPT ![r] = Append(@, <<"register_issue", id>>)]
    /\ UNCHANGED db_repositories

\* Line 207: the issue is unregistered from the database; the loop goes on.
UnregisterIssue(r) ==
    /\ Running(r) /\ units[r].pc = "unregister"
    /\ LET issues_in_gh == issues(units[r].gh_repo[1])
           issues_in_db == units[r].issues_in_db[1]
           id == units[r].id
       IN  /\ db_issues' = unregister_issue(db_issues, units[r].repo[1].repository_id, id)
           /\ Continue(r, units[r], after_unregister(id + 1, issues_in_gh, issues_in_db))
           /\ ops' = [ops EXCEPT ![r] = Append(@, <<"unregister_issue", id>>)]
    /\ UNCHANGED db_repositories

\* Lines 213-217: the last track timestamp is written; the unit ends well.
UpdateRepositoryLastTrackTs(r) ==
    /\ Running(r) /\ units[r].pc = "last_track"
    /\ db_repositories' = update_repository_last_track_ts(db_repositories,
                                                          units[r].repo[1].repository_id)
    /\ EndUnit(r, Ok)
    /\ ops' = [ops EXCEPT ![r] = Append(@, <<"update_repository_last_track_ts", 0>>)]
    /\ UNCHANGED db_issues

\* A failing call that ends the stream: the other futures are dropped.
CallFailsCancelsSiblings(r) ==
    /\ Running(r)
    /\ units' = [q \in Repos |->
                    IF q = r
                    THEN [IdleUnit EXCEPT !.pc = "ended",
                                          !.res = Some(Err(units[r].repo[1].url, units[r].pc))]
                    ELSE IF q \in InProgress THEN [IdleUnit EXCEPT !.pc = "dropped"]
                    ELSE units[q]]
    /\ gh_tokens_pool' = gh_tokens_pool \cup {units[q].gh_token : q \in Holding}
    /\ task_results' = Append(task_results, Err(units[r].repo[1].url, units[r].pc))
    /\ UNCHANGED <<config, pc, repositories_to_track, result, token_i, ret, db, ops>>

\* The call awaited (GitHub's or the database's) returns an error: `?`
\* returns it, and line 133 puts the repository's url before it.
CallFails(r) ==
    /\ Running(r)
    /\ EndUnit(r, Err(units[r].repo[1].url, units[r].pc))
    /\ UNCHANGED <<db, ops>>

\* A unit without deadline.
TimeoutNever(r) == FALSE

\* Lines 124-131: the timeout elapses while track_repository awaits: the
\* future is dropped where it is, and the call it awaited has no effect.
Timeout(r) ==
    /\ Running(r)
    /\ EndUnit(r, Err(units[r].repo[1].url, "deadline has elapsed"))
    /\ UNCHANGED <<db, ops>>

\* A run that folds the results as soon as there is one.
CollectEarly ==
    /\ pc = "tracking"
    /\ task_results # <<>>
    /\ result' = fold(Ok, task_results)
    /\ token_i' = 1
    /\ pc' = "rate_limit"
    /\ UNCHANGED <<config, db, repositories_to_track, units, gh_tokens_pool,
                   task_results, ret, ops>>

\* Lines 136-148: every future has ended; the results are folded.
Collect ==
    /\ pc = "tracking"
    /\ repositories_to_track = <<>>
    /\ InProgress = {}
    /\ result' = fold(Ok, task_results)
    /\ token_i' = 1
    /\ pc' = "rate_limit"
    /\ UNCHANGED <<config, db, repositories_to_track, units, gh_tokens_pool,
                   task_results, ret, ops>>

\* Lines 151-163: the rate limit of the next token is read and logged.
RateLimit ==
    /\ pc = "rate_limit"
    /\ token_i <= gh_tokens
    /\ token_i' = token_i + 1
    /\ UNCHANGED <<config, db, pc, repositories_to_track, units, gh_tokens_pool,
                   task_results, result, ret, ops>>

\* Lines 152, 156 and 158: setting up the client, the request or decoding
\* the response fails, and `?` returns the error.
RateLimitFails ==
    /\ pc = "rate_limit"
    /\ token_i <= gh_tokens
    /\ ret' = Some(Err(0, "rate limit"))
    /\ pc' = "done"
    /\ UNCHANGED <<config, db, repositories_to_track, units, gh_tokens_pool,
                   task_results, result, token_i, ops>>

\* Lines 165-166: run returns the folded result.
Finish ==
    /\ pc = "rate_limit"
    /\ token_i > gh_tokens
    /\ ret' = Some(result)
    /\ pc' = "done"
    /\ UNCHANGED <<config, db, repositories_to_track, units, gh_tokens_pool,
                   task_results, result, token_i, ops>>

Next ==
    \/ SetupTokensPool
    \/ GetRepositoriesToTrack
    \/ GetRepositoriesToTrackErr
    \/ Dispatch
    \/ \E r \in Repos : GetToken(r)
    \/ \E r \in Repos : Fetch(r)
    \/ \E r \in Repos : UpdateRepositoryGhData(r)
    \/ \E r \in Repos : GetRepositoryIssues(r)
    \/ \E r \in Repos : RegisterIssue(r)
    \/ \E r \in Repos : UnregisterIssue(r)
    \/ \E r \in Repos : UpdateRepositoryLastTrackTs(r)
    \/ \E r \in Repos : CallFails(r)
    \/ \E r \in Repos : Timeout(r)
    \/ Collect
    \/ RateLimit
    \/ RateLimitFails
    \/ Finish

Spec == Init /\ [][Next]_vars

\* What the code itself guarantees to happen: the task that polls the
\* stream runs the code between two awaits, the pool wakes a unit that waits
\* for a token once there is one, and the timer ends a unit that is still
\* in track_repository after REPOSITORY_TRACK_TIMEOUT seconds.  Nothing
\* makes GitHub or the database answer a call.
Fairness ==
    /\ WF_vars(SetupTokensPool)
    /\ WF_vars(Dispatch)
    /\ \A r \in Repos : WF_vars(GetToken(r))
    /\ \A r \in Repos : WF_vars(Timeout(r))
    /\ WF_vars(Collect)
    /\ WF_vars(Finish)

\* Runs over one repository all of whose issues were closed.
InitClosing ==
    /\ gh_tokens = 1
    /\ concurrency = 1
    /\ due = <<1>>
    /\ gh = [r \in Repos |-> Unchanged.gh]
    /\ db_repositories = [r \in Repos |-> Unchanged.row]
    /\ \E i \in DbIssues :
        db_issues = [r \in Repos |-> IF r = 1 THEN i ELSE Unchanged.issues]

\* Runs over several repositories that are all in the same case, and runs
\* over one repository all of whose issues were closed.
InitFair ==
    /\ run_no = 1
    /\ tracked = [r \in Repos |-> None]
    /\ RunStart
    /\ \/ /\ InitScheduling
          /\ \A q, r \in Repos :
                (IsDue(q) /\ IsDue(r)) => gh[q] = gh[r] /\ db_issues[q] = db_issues[r]
       \/ InitClosing

FairSpec == InitFair /\ [][Next]_vars /\ Fairness

\* ------------------------------------------------------------- properties
Failed(r) == units[r].res # None /\ ~units[r].res[1].ok
Succeeded(r) == units[r].res = Some(Ok)
TimedOut(r) == units[r].res = Some(Err(r, "deadline has elapsed"))

\* The results were collected and folded.
Collected == pc \in {"rate_limit", "done"} /\ token_i >= 1

\* The line of the unit's error: its url and the cause.
Line(r) == units[r].res[1].msg[1]

Mentions(res, url) == \E k \in 1..Len(res.msg) : res.msg[k].url = url

Did(r, op) == \E k \in 1..Len(ops[r]) : ops[r][k] = op
Registered(r, i) == Did(r, <<"register_issue", i>>)
Unregistered(r, i) == Did(r, <<"unregister_issue", i>>)

\* The unit is past the register loop, its locals alive.
PastRegister(r) == units[r].pc \in {"unregister", "last_track"}
IssuesInGh(r) == issues(units[r].gh_repo[1])
IssuesInDb(r) == units[r].issues_in_db[1]

\* Everything a tracking of r writes is in the database.
WritesPresent(r) ==
    /\ db_repositories[r].topics = gh[r].topics
    /\ db_repositories[r].languages = gh[r].languages
    /\ db_repositories[r].stars = Some(gh[r].stars)
    /\ db_repositories[r].digest =
          Some(RepoDigest(gh[r].topics, gh[r].languages, Some(gh[r].stars)))
    /\ db_repositories[r].last_track_ts = run_no
    /\ \A i \in IssueIds :
          /\ gh[r].issues[i] = None <=> db_issues[r][i] = None
          /\ gh[r].issues[i] # None => db_issues[r][i][1].digest = issues(gh[r])[i][1].digest
          /\ Registered(r, i) => db_issues[r][i] = issues(gh[r])[i]

\* C1. Bounded concurrency: in every state the units that hold a token are
\* at most tracker.concurrency, however many repositories are due and
\* however many tokens the pool has.
C1_BoundedConcurrency ==
    concurrency >= 1 => Cardinality(Holding) <= concurrency

\* More repositories than the limit, a token free in the pool, and the
\* stream waiting for the unit in flight.
C1_Witness ==
    /\ concurrency = 1 /\ Len(due) > concurrency /\ gh_tokens = 2
    /\ Cardinality(Holding) = 1
    /\ repositories_to_track # <<>>
    /\ gh_tokens_pool # {}

C3_FailureAggregation ==
    (pc = "done" /\ task_results # <<>>) =>
        /\ ret # None
        /\ ret[1].ok <=> \A r \in Repos : ~Failed(r)
        /\ \A r \in Repos :
              Failed(r) => \E k \in 1..Len(ret[1].msg) : ret[1].msg[k] = Line(r)
        /\ \A k \in 1..Len(ret[1].msg) :
              \E r \in Repos : Failed(r) /\ ret[1].msg[k] = Line(r)

\* C4. Rate limit failures do not change the verdict: once the results are
\* folded, run returns the folded result whatever the rate limit queries do.
C4_RateLimitFailuresIgnored ==
    (pc = "done" /\ token_i >= 1) => ret = Some(result)

\* C6. Reconciliation completeness: after a unit that ended well, the
\* repository's issues in the database are exactly GitHub's, each with the
\* digest of GitHub's issue.
C6_ReconciliationComplete ==
    \A r \in Repos :
        Succeeded(r) =>
            \A i \in IssueIds :
                /\ gh[r].issues[i] = None <=> db_issues[r][i] = None
                /\ gh[r].issues[i] # None =>
                      db_issues[r][i][1].digest = issues(gh[r])[i][1].digest

\* A unit that registered an issue and unregistered another ended well.
C6_Witness ==
    \E r \in Repos : Succeeded(r) /\ Registered(r, 1) /\ Unregistered(r, 2)

TitleOnly(a, b) == a.title # b.title /\ a.number = b.number /\ a.labels = b.labels
NumberOnly(a, b) == a.title = b.title /\ a.number # b.number /\ a.labels = b.labels

\* C9 as stated. An issue whose title only or whose number only changed in
\* GitHub is registered again.
C9_TitleOrNumberAsStated ==
    \A r \in Repos :
        PastRegister(r) =>
            \A i \in IssueIds :
                ( /\ IssuesInGh(r)[i] # None
                  /\ IssuesInDb(r)[i] # None
                  /\ \/ TitleOnly(IssuesInDb(r)[i][1], IssuesInGh(r)[i][1])
                     \/ NumberOnly(IssuesInDb(r)[i][1], IssuesInGh(r)[i][1]) )
                => Registered(r, i)

\* C9, amended. An issue whose title only changed is registered again and
\* its row becomes GitHub's issue; an issue whose number only changed has
\* the digest it had, is not registered and its row keeps the old number.
C9_TitleOrNumber ==
    \A r \in Repos :
        PastRegister(r) =>
            \A i \in IssueIds :
                (IssuesInGh(r)[i] # None /\ IssuesInDb(r)[i] # None) =>
                    /\ TitleOnly(IssuesInDb(r)[i][1], IssuesInGh(r)[i][1]) =>
                          /\ Registered(r, i)
                          /\ db_issues[r][i] = IssuesInGh(r)[i]
                    /\ NumberOnly(IssuesInDb(r)[i][1], IssuesInGh(r)[i][1]) =>
                          /\ ~Registered(r, i)
                          /\ db_issues[r][i] = IssuesInDb(r)[i]

\* One issue changed its title and another its number.
C9_Witness ==
    \E r \in Repos :
        /\ units[r].pc = "last_track"
        /\ IssuesInGh(r)[1] # None /\ IssuesInDb(r)[1] # None
        /\ TitleOnly(IssuesInDb(r)[1][1], IssuesInGh(r)[1][1])
        /\ IssuesInGh(r)[2] # None /\ IssuesInDb(r)[2] # None
        /\ NumberOnly(IssuesInDb(r)[2][1], IssuesInGh(r)[2][1])

\* C10. The token of a unit goes back to the pool when the unit ends, however
\* it ends: the pool holds every token that no unit in flight holds, and all
\* of them once every unit has ended.
C10_TokensReleased ==
    (gh_tokens >= 1 /\ pc # "start") =>
        /\ gh_tokens_pool = (1..gh_tokens) \ {units[r].gh_token : r \in InProgress}
        /\ InProgress = {} => gh_tokens_pool = 1..gh_tokens

\* One unit ended well, one failed and one timed out (or two of them, with
\* two repositories), and the pool is full.
C10_Witness ==
    /\ Collected
    /\ \E x, y \in Repos : TimedOut(x) /\ (Succeeded(y) \/ Failed(y)) /\ x # y
    /\ gh_tokens_pool = 1..gh_tokens

\* ------------------------------------------------------- successive runs
\* What a repository may be in GitHub at the next run: what it was, or
\* that with other stars, or with one issue opened, closed or changed.
GhEdits(g) ==
    {g}
    \cup { [g EXCEPT !.stars = s] : s \in StarsValues }
    \cup { [g EXCEPT !.issues[i] = v] :
              i \in IssueIds, v \in {None} \cup {Some(c) : c \in IssueContents} }

\* Line 96: the tracker is run again, over the database the previous run
\* left; at most one of the repositories due has changed in GitHub.
NextRun ==
    /\ pc \in {"done", "panicked"}
    /\ run_no < MaxRuns
    /\ run_no' = run_no + 1
    /\ tracked' = [r \in Repos |-> IF Succeeded(r) THEN Some(gh[r]) ELSE None]
    /\ \E q \in Repos :
          /\ IsDue(q)
          /\ \E g \in GhEdits(gh[q]) : gh' = [gh EXCEPT ![q] = g]
    /\ pc' = "start"
    /\ repositories_to_track' = <<>>
    /\ units' = [r \in Repos |-> IdleUnit]
    /\ gh_tokens_pool' = {}
    /\ task_results' = <<>>
    /\ result' = Ok
    /\ token_i' = 0
    /\ ret' = None
    /\ ops' = [r \in Repos |-> <<>>]
    /\ UNCHANGED <<gh_tokens, concurrency, due, db>>

\* Runs over one repository, one after another: the repository is one of
\* Cases, or one that was never tracked, with any data in GitHub.
InitSuccessiveRuns ==
    /\ run_no = 1
    /\ tracked = [r \in Repos |-> None]
    /\ RunStart
    /\ gh_tokens = 1 /\ concurrency = 1 /\ due = <<1>>
    /\ \/ InitScheduling
       \/ \E g \in GhRepos :
             /\ gh = [r \in Repos |-> IF r = 1 THEN g ELSE Unchanged.gh]
             /\ db_repositories = [r \in Repos |-> IF r = 1 THEN NeverTracked ELSE Unchanged.row]
             /\ db_issues = [r \in Repos |-> NoIssues]

NextSuccessiveRuns == Next \/ NextRun

SpecSuccessiveRuns == InitSuccessiveRuns /\ [][NextSuccessiveRuns]_vars

\* C5. Timeout enforcement: the units in track_repository end and the
\* stream is drained even if the calls they await never return, so the run
\* does not stay in the tracking of the repositories; a unit that timed out
\* is in the folded error with its url; the step in which a unit times out
\* leaves the database as it is.
C5_TimeoutEnforced ==
    /\ <>[](pc # "tracking")
    /\ [](pc # "tracking" => \A r \in Repos : units[r].pc \notin TrackPcs)
    /\ [](\A r \in Repos :
            (Collected /\ TimedOut(r)) =>
                /\ ~result.ok
                /\ \E k \in 1..Len(result.msg) : result.msg[k] = Line(r))
    /\ [][\A r \in Repos :
            (units[r].pc \in TrackPcs /\ TimedOut(r)') => db' = db]_vars

\* A unit timed out in its fetch, another one after it had registered an
\* issue, which is in the database; the run is over.
C5_Witness ==
    \E x, y \in Repos :
        /\ TimedOut(x) /\ ops[x] = <<>>
        /\ TimedOut(y) /\ Registered(y, 1) /\ db_issues[y][1] = issues(gh[y])[1]
        /\ pc = "done"

\* The calls that write nothing but the last track timestamp.
ReadsAndTimestamp ==
    <<<<"repository", 0>>, <<"get_repository_issues", 0>>,
      <<"update_repository_last_track_ts", 0>>>>

\* C7. Idempotence: when the previous run tracked a repository well and
\* GitHub's data of it is what that run fetched, this run's unit writes
\* nothing but the last track timestamp: no repository data, no issue
\* registered, no issue unregistered.
C7_Idempotence ==
    \A r \in Repos :
        tracked[r] = Some(gh[r]) =>
            /\ Len(ops[r]) <= Len(ReadsAndTimestamp)
            /\ ops[r] = SubSeq(ReadsAndTimestamp, 1, Len(ops[r]))
            /\ Succeeded(r) => ops[r] = ReadsAndTimestamp

\* The second run tracked well a repository with an open issue that the
\* first run had tracked well.
C7_Witness ==
    \E r \in Repos :
        /\ run_no = 2
        /\ tracked[r] = Some(gh[r])
        /\ gh[r].issues[1] # None
        /\ Succeeded(r)
        /\ ops[r] = ReadsAndTimestamp
        /\ db_repositories[r].last_track_ts = 2

\* ------------------------------------------------------------ termination
\* Fairness, and every call that run itself awaits is answered, well or with
\* an error: the read of the repositories to track (line 108) and the rate
\* limit requests (lines 153-158).  The calls of the units need not answer.
FairnessAnswered ==
    /\ Fairness
    /\ WF_vars(GetRepositoriesToTrack \/ GetRepositoriesToTrackErr)
    /\ WF_vars(RateLimit \/ RateLimitFails)

FairSpecAnswered == InitFair /\ [][Next]_vars /\ FairnessAnswered

\* A unit waits for a token, or is in track_repository.
Waiting(r) == units[r].pc = "get_token"
Unended(r) == units[r].pc \in TrackPcs \cup {"get_token"}

LastTrackOp == <<"update_repository_last_track_ts", 0>>
LastTrackOps(r) == {k \in 1..Len(ops[r]) : ops[r][k] = LastTrackOp}
Reconciling(r) == units[r].pc \in {"get_issues", "register", "unregister"}

\* C12. The last track timestamp is updated unconditionally: a unit that
\* leaves the reconciliation of the issues without an error goes on to the
\* update of the timestamp, whatever it wrote before; the update is the last
\* call of a unit that ended well, is made once, and leaves this run's time
\* in the repository's row; no unit makes it twice.
C12_LastTrackUnconditional ==
    /\ [][\A r \in Repos :
            (/\ Reconciling(r) /\ ~Reconciling(r)'
             /\ units'[r].res = None /\ pc' # "panicked")
                => units'[r].pc = "last_track"]_vars
    /\ [](\A r \in Repos :
            /\ Cardinality(LastTrackOps(r)) <= 1
            /\ Succeeded(r) =>
                  /\ LastTrackOps(r) = {Len(ops[r])}
                  /\ db_repositories[r].last_track_ts = run_no
            /\ LastTrackOps(r) # {} => Succeeded(r))

\* A unit whose repository had the digest stored and no issue to register
\* or unregister ended well: it wrote the timestamp and nothing else.
C12_Witness ==
    \E r \in Repos :
        /\ Succeeded(r)
        /\ ops[r] = ReadsAndTimestamp
        /\ db_repositories[r].last_track_ts = run_no

\* ------------------------------------------------------ repository digest
GhDataOp == <<"update_repository_gh_data", 0>>
GhDataOps(r) == {k \in 1..Len(ops[r]) : ops[r][k] = GhDataOp}
GhDigest(r) == Some(RepoDigest(gh[r].topics, gh[r].languages, Some(gh[r].stars)))

\* C13. The digest stored with a repository is absent or is the digest of
\* the topics, languages and stars stored with it.  A unit goes from the
\* fetch to the write of the repository's data if and only if the digest of
\* what it fetched is not the digest stored (none stored included), the
\* write stores what was fetched with its digest, and no unit makes it twice.
C13_StoredDigest ==
    /\ [](\A r \in Repos :
            /\ \/ db_repositories[r].digest = None
               \/ db_repositories[r].digest =
                     Some(RepoDigest(db_repositories[r].topics,
                                     db_repositories[r].languages,
                                     db_repositories[r].stars))
            /\ Cardinality(GhDataOps(r)) <= 1
            /\ GhDataOps(r) # {} => db_repositories[r].digest = GhDigest(r))
    /\ [][\A r \in Repos :
            (units[r].pc = "fetch" /\ units'[r].pc \in {"update_gh_data", "get_issues"})
                => (units'[r].pc = "update_gh_data"
                        <=> GhDigest(r) # db_repositories[r].digest)]_vars
    /\ [][\A r \in Repos :
            (units[r].pc = "update_gh_data" /\ units'[r].pc = "get_issues")
                => /\ GhDataOps(r) = {} /\ GhDataOps(r)' # {}
                   /\ db_repositories'[r].stars = Some(gh[r].stars)
                   /\ db_repositories'[r].topics = gh[r].topics
                   /\ db_repositories'[r].languages = gh[r].languages]_vars
    /\ [][\A r \in Repos :
            db_repositories'[r].digest # db_repositories[r].digest
                => units[r].pc = "update_gh_data"]_vars

\* The second run found other stars than the first, which had tracked the
\* repository well, and wrote the repository's data once.
C13_Witness ==
    \E r \in Repos :
        /\ run_no = 2
        /\ tracked[r] # None
        /\ tracked[r][1].stars # gh[r].stars
        /\ Succeeded(r)
        /\ Cardinality(GhDataOps(r)) = 1
        /\ db_repositories[r].digest = GhDigest(r)

\* ------------------------------------------------------------ rate limit
\* The tokens whose rate limit was requested: those before token_i, and
\* token_i itself when its request failed.
Queried ==
    IF token_i = 0 THEN {}
    ELSE {k \in 1..gh_tokens : k < token_i \/ (k = token_i /\ pc = "done")}

\* C14. The rate limit is requested for every token: once a run that
\* tracked repositories is over, the rate limit of each configured token
\* was requested, whatever the units' results and whether or not the
\* request of another token failed.
C14_RateLimitOfEveryToken ==
    (pc = "done" /\ token_i >= 1) => Queried = 1..gh_tokens

\* ------------------------------------------------------------ early returns
\* No unit was created and no call of a unit was made.
NothingDispatched ==
    /\ repositories_to_track = <<>>
    /\ units = [r \in Repos |-> IdleUnit]
    /\ ops = [r \in Repos |-> <<>>]
    /\ task_results = <<>>
    /\ token_i = 0

\* C15. Without tokens run returns an error before anything else: with an
\* empty list of tokens the run is at its start or has returned the error,
\* it never gets to the read of the repositories to track, no unit is
\* created, no call is made and the database stays as it is.
C15_NoTokensShortCircuit ==
    /\ [](gh_tokens = 0 =>
            /\ pc \in {"start", "done"}
            /\ pc = "done" =>
                  ret = Some(Err(0, "GitHub tokens not found in config file"))
            /\ gh_tokens_pool = {}
            /\ NothingDispatched)
    /\ [][gh_tokens = 0 => db' = db]_vars

\* Repositories are due, there is no token, and run has returned the error.
C15_Witness ==
    /\ gh_tokens = 0
    /\ due # <<>>
    /\ pc = "done"
    /\ ret = Some(Err(0, "GitHub tokens not found in config file"))

\* C16. With no repository to track run returns Ok at once: when the
\* database answers the read with an empty list run returns Ok, and in such
\* a run no unit is created, no token leaves the pool, no rate limit is
\* requested and the database stays as it is.
C16_NothingToTrack ==
    /\ [](due = <<>> =>
            /\ pc \in {"start", "get_repositories_to_track", "done"}
            /\ NothingDispatched
            /\ (gh_tokens >= 1 /\ pc # "start") => gh_tokens_pool = 1..gh_tokens)
    /\ [][(pc = "get_repositories_to_track" /\ due = <<>> /\ ret' # Some(Err(0, "db")))
            => (pc' = "done" /\ ret' = Some(Ok))]_vars
    /\ [][due = <<>> => db' = db]_vars

\* There are tokens, no repository is due, and run has returned Ok.
C16_Witness ==
    /\ due = <<>>
    /\ gh_tokens >= 1
    /\ pc = "done"
    /\ ret = Some(Ok)
    /\ gh_tokens_pool = 1..gh_tokens

\* ------------------------------------------------------------- step order
\* The place of a call in track_repository, and the issue it is about.
Step(op) ==
    CASE op[1] = "repository" -> 1
      [] op[1] = "update_repository_gh_data" -> 2
      [] op[1] = "get_repository_issues" -> 3
      [] op[1] = "register_issue" -> 4
      [] op[1] = "unregister_issue" -> 5
      [] op[1] = "update_repository_last_track_ts" -> 6

\* The calls are in the order of track_repository: each one is of a later
\* step than the one before, or of the same loop and a later issue; the
\* fetch is the first, and the issues are read before any is written and
\* before the timestamp is.
InOrder(calls) ==
    /\ \A k \in 1..Len(calls) - 1 :
          \/ Step(calls[k]) < Step(calls[k + 1])
          \/ /\ Step(calls[k]) = Step(calls[k + 1])
             /\ Step(calls[k]) \in {4, 5}
             /\ calls[k][2] < calls[k + 1][2]
    /\ calls # <<>> => Step(calls[1]) = 1
    /\ \A k \in 1..Len(calls) :
          Step(calls[k]) >= 4 => \E j \in 1..(k - 1) : Step(calls[j]) = 3

\* The step in which the unit of r ends with an error, or timed out.
Fails(r) == units[r].res = None /\ units'[r].res # None /\ ~units'[r].res[1].ok

\* C17. The calls of a unit are made in the order fetch, write of the
\* repository's data, read of the issues, registrations, unregistrations,
\* last track timestamp.  The step in which a call fails or the deadline
\* elapses ends the unit: it makes no call, the unit makes none later and
\* has not written the timestamp; that step leaves the database and every
\* other unit as they are.
C17_StepOrder ==
    /\ [](\A r \in Repos :
            /\ InOrder(ops[r])
            /\ Failed(r) => LastTrackOps(r) = {})
    /\ [][\A r \in Repos :
            Fails(r) =>
                /\ ops' = ops
                /\ db' = db
                /\ \A q \in Repos \ {r} : units'[q] = units[q]]_vars
    /\ [][\A r \in Repos :
            (units[r].res # None /\ pc' # "start") => ops'[r] = ops[r]]_vars

\* A unit registered an issue, unregistered another and was then ended by
\* the deadline; both writes are in the database.
C17_Witness ==
    \E r \in Repos :
        /\ TimedOut(r)
        /\ Len(ops[r]) >= 4
        /\ Registered(r, 1) /\ db_issues[r][1] = issues(gh[r])[1]
        /\ Unregistered(r, 2) /\ db_issues[r][2] = None
        /\ db_repositories[r].last_track_ts # run_no

\* --------------------------------------------------------------- draining
\* Every repository that was due has a unit that ended, and no unit is
\* waiting, running or holding a token.
Drained ==
    /\ repositories_to_track = <<>>
    /\ \A r \in Repos : IsDue(r) <=> units[r].res # None
    /\ \A r \in Repos : ~Unended(r)
    /\ Holding = {}
    /\ gh_tokens_pool = 1..gh_tokens
    /\ Len(task_results) = Len(due)

\* C18. Draining precedes reporting: the results are folded, the first
\* rate limit is requested and run returns only when every unit of the
\* stream has ended; from the fold on no unit runs or holds a token, and
\* the folded result is that of all the units.
C18_DrainingPrecedesReporting ==
    /\ []((token_i >= 1 \/ (pc = "done" /\ task_results # <<>>)) =>
            /\ Drained
            /\ result = fold(Ok, task_results))
    /\ []((pc = "done" /\ ret # None) => \A r \in Repos : ~Unended(r) /\ units[r].gh_token = 0)
    /\ [][(token_i = 0 /\ token_i' = 1) => (Drained /\ UNCHANGED <<units, db, ops>>)]_vars

\* Two units have ended, one of them by the deadline, and the first rate
\* limit is about to be requested.
C18_Witness ==
    /\ pc = "rate_limit" /\ token_i = 1
    /\ Len(due) = 2
    /\ \E x, y \in Repos : x # y /\ TimedOut(x) /\ Succeeded(y)

\* --------------------------------------------------------------- dispatch
\* The unit of r was created.
Dispatched(r) == units[r].pc # "idle"

\* C19. Dispatch exactly once: the stream is filled once, with the
\* repositories that are due, and only shrinks afterwards; a unit is created
\* for the repository at the head of the stream only, once; a unit that
\* ended stays ended for the rest of the run; and when the stream has
\* drained there is one result for each repository that was due.
C19_DispatchOnce ==
    /\ [][repositories_to_track' # repositories_to_track =>
            \/ /\ pc = "get_repositories_to_track"
               /\ repositories_to_track = <<>>
               /\ \A r \in Repos : ~Dispatched(r)
               /\ repositories_to_track' = get_repositories_to_track
            \/ /\ pc = "tracking"
               /\ repositories_to_track # <<>>
               /\ repositories_to_track' = Tail(repositories_to_track)
               /\ \E r \in Repos :
                     /\ r = Head(repositories_to_track).repository_id
                     /\ ~Dispatched(r)
                     /\ Dispatched(r)'
            \/ pc' = "start"]_vars
    /\ [][\A r \in Repos :
            (Dispatched(r) /\ pc' # "start") =>
                /\ Dispatched(r)'
                /\ units'[r].pc = "get_token" => units[r].pc = "get_token"
                /\ units[r].res # None => units'[r] = units[r]]_vars
    /\ [][\A r \in Repos :
            (~Dispatched(r) /\ Dispatched(r)') =>
                /\ repositories_to_track # <<>>
                /\ Head(repositories_to_track).repository_id = r]_vars
    /\ [](\A r \in Repos : Dispatched(r) => IsDue(r))
    /\ [](Collected =>
            /\ \A r \in Repos : IsDue(r) <=> Dispatched(r)
            /\ Len(task_results) = Len(due))

\* Run has returned: of two repositories one failed in its fetch and one
\* timed out, and there are two results.
C19_Witness ==
    /\ pc = "done" /\ ret # None
    /\ Len(task_results) = 2
    /\ \E x, y \in Repos :
          /\ x # y
          /\ units[x].res = Some(Err(x, "fetch"))
          /\ TimedOut(y)

\* ------------------------------------------------------------ exclusivity
\* C20. Token exclusivity: no token is held by two units or is both held
\* and in the pool, so the units that hold a token are at most as many as
\* the tokens and at most tracker.concurrency; a unit in track_repository
\* holds a token, a unit that waits for one holds none and has made no
\* call, and every call is made by a unit that holds a token.
C20_TokenExclusivity ==
    /\ []((gh_tokens >= 1 /\ concurrency >= 1) =>
            /\ \A x, y \in Holding : x # y => units[x].gh_token # units[y].gh_token
            /\ \A x \in Holding : units[x].gh_token \in (1..gh_tokens) \ gh_tokens_pool
            /\ Cardinality(Holding) <= gh_tokens
            /\ Cardinality(Holding) <= concurrency
            /\ \A r \in Repos :
                  /\ units[r].pc \in TrackPcs => r \in Holding
                  /\ Waiting(r) => (r \notin Holding /\ ops[r] = <<>>))
    /\ [][\A r \in Repos :
            (ops'[r] # ops[r] /\ pc' # "start") => r \in Holding]_vars
    /\ [][\A r \in Repos : db'[1][r] # db[1][r] \/ db'[2][r] # db[2][r] => r \in Holding]_vars

\* Two units hold the two tokens, and both have made calls.
C20_Witness ==
    /\ gh_tokens = 2 /\ concurrency = 2
    /\ gh_tokens_pool = {}
    /\ \E x, y \in Repos :
          /\ x # y
          /\ units[x].gh_token = 1 /\ units[y].gh_token = 2
          /\ ops[x] # <<>> /\ ops[y] # <<>>

=============================================================================
